---------------------------- MODULE Spec2Model ----------------------------
(***************************************************************************)
(* The NSW population dashboard (src/app.py): a Streamlit script that is   *)
(* run top to bottom on every user interaction.  One run is one render     *)
(* pass: load the two data files through the st.cache_data memo, left-join *)
(* them on LGANAME, discover the year columns, let the user select a year, *)
(* draw the Leaflet map and the zonal statistics.                          *)
(*                                                                         *)
(* Text is modelled as sequences of Unicode code points (restricted to     *)
(* code points below 256), so that str.isnumeric, sorted() and the number  *)
(* formatting are computed character by character.  Population values are  *)
(* multiples of one half, kept in a cell as their double v2 (100 is        *)
(* v2 = 200, 100.5 is v2 = 201); a missing value (NaN) is a cell with      *)
(* isna = TRUE; sums and medians are fractions num / den.  Shapefile       *)
(* attribute columns other than LGANAME and geometry are not modelled, so  *)
(* the join never renames overlapping columns.                             *)
(***************************************************************************)
EXTENDS Integers, Sequences, FiniteSets, TLC

VARIABLES shp,      \* what is on disk at SHAPEFILE_PATH
          csv,      \* what is on disk at CSV_PATH
          cache,    \* the st.cache_data memo of load_local_data (process memory)
          started,  \* the browser session has had its first render pass
          dirty,    \* a data file was rewritten after the memo entry was computed
          page      \* what the last render pass put on the page

vars == <<shp, csv, cache, started, dirty, page>>

-----------------------------------------------------------------------------
(* Bounds of the model *)

MaxRegions == 3     \* rows in a generated shapefile
MaxCsvRows == 2     \* rows in a generated CSV file

(* Program constants *)

TARGET_EPSG == 4326 \* to_crs(epsg=4326)
ZOOM_START == 6     \* folium.Map(..., zoom_start=6)
TOP_N == 5          \* nlargest(5, ...), nsmallest(5, ...)

-----------------------------------------------------------------------------
(* Text *)

LGANAME == <<76, 71, 65, 78, 65, 77, 69>>          \* "LGANAME"
GEOMETRY == <<103, 101, 111, 109, 101, 116, 114, 121>> \* "geometry"
Y2016 == <<50, 48, 49, 54>>                        \* "2016"
Y2021 == <<50, 48, 50, 49>>                        \* "2021"
HALF == <<189>>                                    \* the one-character name U+00BD

SHAPEFILE_PATH == "data/lga.shp"
CSV_PATH == "data/lga.csv"

\* Code points 0..255 with the Unicode property Numeric_Type = Decimal
DecimalDigits == 48..57
\* Code points 0..255 that are numeric without being decimal digits:
\* superscript two, three, one and the vulgar fractions 1/4, 1/2, 3/4
OtherNumeric == {178, 179, 185, 188, 189, 190}

\* str.isnumeric(): at least one character and every character numeric
IsNumeric(s) == Len(s) > 0 /\ \A i \in 1..Len(s) : s[i] \in DecimalDigits \cup OtherNumeric

\* Python's < on str: lexicographic by code point, a proper prefix is smaller
StrLess(a, b) ==
    \E k \in 1..(Len(a) + 1) :
        /\ k <= Len(b)
        /\ \A j \in 1..(k - 1) : a[j] = b[j]
        /\ (k <= Len(a) => a[k] < b[k])

\* one step of sorted(): x goes behind every element that is not greater
RECURSIVE InsertStr(_, _)
InsertStr(x, s) ==
    IF s = <<>> THEN <<x>>
    ELSE IF StrLess(x, Head(s)) THEN <<x>> \o s
    ELSE <<Head(s)>> \o InsertStr(x, Tail(s))

\* sorted(list of str)
RECURSIVE sorted(_)
sorted(s) ==
    IF s = <<>> THEN <<>>
    ELSE InsertStr(s[Len(s)], sorted(SubSeq(s, 1, Len(s) - 1)))

\* the decimal digits of n >= 0
RECURSIVE Digits(_)
Digits(n) == IF n < 10 THEN <<48 + n>> ELSE Digits(n \div 10) \o <<48 + (n % 10)>>

\* the "," grouping option: a comma before every group of three digits
RECURSIVE Grouped(_)
Grouped(d) ==
    IF Len(d) <= 3 THEN d
    ELSE Grouped(SubSeq(d, 1, Len(d) - 3)) \o <<44>> \o SubSeq(d, Len(d) - 2, Len(d))

\* f"{n:,}" for an int n
FormatThousands(n) == IF n < 0 THEN <<45>> \o Grouped(Digits(-n)) ELSE Grouped(Digits(n))

\* rounding to the nearest integer, halves upward, in the place of int(x)
round_half_up(x) == (2 * x.num + x.den) \div (2 * x.den)

\* int(x): truncation toward zero
int(x) == IF x.num >= 0 THEN x.num \div x.den ELSE -((-x.num) \div x.den)

\* the integer nearest to the fraction x, a tie going to the even one
round_half_even(x) ==
    LET floor == x.num \div x.den
        rest == x.num % x.den
    IN  IF 2 * rest < x.den THEN floor
        ELSE IF 2 * rest > x.den THEN floor + 1
        ELSE IF floor % 2 = 0 THEN floor ELSE floor + 1

\* "{:,.0f}".format(x) for a float x
Format0f(x) == FormatThousands(round_half_even(x))

\* f"{n}" for an int n
Str(n) == IF n < 0 THEN <<45>> \o Digits(-n) ELSE Digits(n)

-----------------------------------------------------------------------------
(* Data frames: columns in order, rows in order, each row with its index   *)
(* label and one cell per column                                           *)

NaN == [isna |-> TRUE, v2 |-> 0]
Num(n) == [isna |-> FALSE, v2 |-> 2 * n]          \* the whole number n
Halves(h) == [isna |-> FALSE, v2 |-> h]           \* the number h / 2

Range(s) == {s[i] : i \in 1..Len(s)}
SeqUpTo(S, n) == UNION {[1..k -> S] : k \in 0..n}

\* keep the elements of s that satisfy Keep, in order
RECURSIVE SelectRows(_, _)
SelectRows(rows, keepIdx) ==
    IF rows = <<>> THEN <<>>
    ELSE (IF Head(rows).idx \in keepIdx THEN <<Head(rows)>> ELSE <<>>)
         \o SelectRows(Tail(rows), keepIdx)

RECURSIVE Concat(_)
Concat(ss) == IF ss = <<>> THEN <<>> ELSE Head(ss) \o Concat(Tail(ss))

\* a fresh RangeIndex 0..n-1 on a sequence of cell rows
Reindex(cellRows) == [i \in 1..Len(cellRows) |-> [idx |-> i - 1, cells |-> cellRows[i]]]


Len0(df) == Len(df.rows)                       \* len(df)
Column(df, c) == [i \in 1..Len(df.rows) |-> df.rows[i].cells[c]]   \* df[c]

-----------------------------------------------------------------------------
(* Files on disk *)

NAME == <<78, 65, 77, 69>>                     \* "NAME"

MissingFile == [kind |-> "missing", columns |-> <<>>, rows |-> <<>>]
UnreadableFile == [kind |-> "unreadable", columns |-> <<>>, rows |-> <<>>]

\* a shapefile with one feature per element of keys, its name in column nameCol,
\* in the GDA94 coordinate reference system
ShpFile(nameCol, keys) ==
    [kind |-> "table",
     columns |-> <<nameCol, GEOMETRY>>,
     rows |-> [i \in 1..Len(keys) |->
                 [c \in {nameCol, GEOMETRY} |->
                     IF c = GEOMETRY THEN [shape |-> i, epsg |-> 4283] ELSE keys[i]]]]

\* a CSV file with the header given and one line per element of lines; a line
\* is a record with a cell for every column of the pool
CsvFile(header, lines) ==
    [kind |-> "table",
     columns |-> header,
     rows |-> [i \in 1..Len(lines) |-> [c \in Range(header) |-> lines[i][c]]]]

-----------------------------------------------------------------------------
(* load_local_data, src/app.py 24-49 *)

None == [kind |-> "None", path |-> "", cause |-> "", columns |-> <<>>]
NoFrame == [columns |-> <<>>, rows |-> <<>>]

Failure(msg) == [gdf |-> NoFrame, population_df |-> NoFrame, error_message |-> msg]

\* pathlib.Path.is_file()
is_file(f) == f.kind # "missing"

\* the parsers raise on a file they cannot read
Raises(f) == f.kind = "unreadable"

\* gpd.read_file(shp_path).to_crs(epsg=4326): every geometry re-projected
read_file_to_crs(f) ==
    [columns |-> f.columns,
     rows |-> Reindex([i \in 1..Len(f.rows) |->
                 [c \in DOMAIN f.rows[i] |->
                     IF c = GEOMETRY
                     THEN [shape |-> f.rows[i][c].shape, epsg |-> TARGET_EPSG]
                     ELSE f.rows[i][c]]])]

\* pd.read_csv(csv_path)
read_csv(f) == [columns |-> f.columns, rows |-> Reindex(f.rows)]

load_local_data(shpFile, csvFile) ==
    IF ~is_file(shpFile) THEN
        Failure([None EXCEPT !.kind = "Shapefile not found at", !.path = SHAPEFILE_PATH])
    ELSE IF ~is_file(csvFile) THEN
        Failure([None EXCEPT !.kind = "CSV file not found at", !.path = CSV_PATH])
    ELSE IF Raises(shpFile) THEN
        Failure([None EXCEPT !.kind = "Fatal Error: Could not read or process shapefile",
                             !.cause = "pyogrio error"])
    ELSE IF Raises(csvFile) THEN
        Failure([None EXCEPT !.kind = "Fatal Error: Could not read CSV file",
                             !.cause = "pandas error"])
    ELSE LET gdf == read_file_to_crs(shpFile)
             pop_df == read_csv(csvFile)
         IN  IF LGANAME \notin Range(gdf.columns) THEN
                 Failure([None EXCEPT !.kind = "Shapefile missing 'LGANAME' column",
                                      !.columns = gdf.columns])
             ELSE IF LGANAME \notin Range(pop_df.columns) THEN
                 Failure([None EXCEPT !.kind = "CSV missing 'LGANAME' column",
                                      !.columns = pop_df.columns])
             ELSE [gdf |-> gdf, population_df |-> pop_df, error_message |-> None]

-----------------------------------------------------------------------------
(* st.cache_data, src/app.py 24-25 and 55: a memo keyed by the arguments   *)
(* of the call, here the two paths                                         *)

CacheKey == <<SHAPEFILE_PATH, CSV_PATH>>
EmptyCache == {}

\* a memo that never finds its entry: every call runs the function
CacheHitNever(c, key) == FALSE

\* the memo has an entry for the key
CacheHit(c, key) == \E e \in c : e.key = key
CacheValue(c, key) == (CHOOSE e \in c : e.key = key).value
CacheStore(c, key, value) == {e \in c : e.key # key} \cup {[key |-> key, value |-> value]}

-----------------------------------------------------------------------------
(* The join and the selection, src/app.py 61-78 *)

\* the columns of s that are not in drop, in order
RECURSIVE Without(_, _)
Without(s, drop) ==
    IF s = <<>> THEN <<>>
    ELSE (IF Head(s) \in drop THEN <<>> ELSE <<Head(s)>>) \o Without(Tail(s), drop)

\* left.merge(right, on=on, how="left"): for every left row in order, one row
\* per right row with the same key, in the right table's order, or one row
\* with the right table's columns null when there is none
merge_left(left, right, on) ==
    LET rcols == Without(right.columns, {on})
        cols == left.columns \o rcols
        Join(l, r) == [c \in Range(cols) |->
                          IF c \in Range(left.columns) THEN l.cells[c] ELSE r.cells[c]]
        Unmatched(l) == [c \in Range(cols) |->
                          IF c \in Range(left.columns) THEN l.cells[c] ELSE NaN]
        Matches(l) == SelectRows(right.rows,
                          {r.idx : r \in {x \in Range(right.rows) : x.cells[on] = l.cells[on]}})
        RowsFor(l) == IF Matches(l) = <<>> THEN <<Unmatched(l)>>
                      ELSE [k \in 1..Len(Matches(l)) |-> Join(l, Matches(l)[k])]
    IN  [columns |-> cols,
         rows |-> Reindex(Concat([i \in 1..Len(left.rows) |-> RowsFor(left.rows[i])]))]

\* [col for col in df.columns if col.isnumeric()]
NumericColumns(df) ==
    LET cols == df.columns
    IN  Without(cols, {c \in Range(cols) : ~IsNumeric(c)})

\* sorted([col for col in population_df.columns if col.isnumeric()])
year_columns_of(population_df) == sorted(NumericColumns(population_df))

\* df.dropna(subset=[col]): the rows whose cell in col is not null, index kept
dropna(df, col) ==
    [columns |-> df.columns,
     rows |-> SelectRows(df.rows, {r.idx : r \in {x \in Range(df.rows) : ~x.cells[col].isna}})]

-----------------------------------------------------------------------------
(* The map, src/app.py 81-116 *)

\* df[cols]: the columns named, every row kept
Project(df, cols) ==
    [columns |-> cols,
     rows |-> [i \in 1..Len(df.rows) |->
                 [idx |-> df.rows[i].idx,
                  cells |-> [c \in Range(cols) |-> df.rows[i].cells[c]]]]]

\* df[col] = df[col].astype(int) on a column without nulls: every value cut to
\* its integer part
astype_int(df, col) ==
    [columns |-> df.columns,
     rows |-> [i \in 1..Len(df.rows) |->
                 [idx |-> df.rows[i].idx,
                  cells |-> [df.rows[i].cells EXCEPT
                      ![col] = Num(int([num |-> df.rows[i].cells[col].v2, den |-> 2]))]]]]

\* df.empty
IsEmpty(df) == Len(df.rows) = 0 \/ Len(df.columns) = 0

BaseMap == [location |-> <<"-32.5", "148.5">>, zoom_start |-> ZOOM_START,
            tiles |-> "CartoDB positron", choropleth |-> <<>>]

Choropleth(map_display_data, selected_year) ==
    [geo_data |-> map_display_data,
     data |-> map_display_data,
     columns |-> <<LGANAME, selected_year>>,
     key_on |-> "feature.properties.LGANAME",
     legend_name |-> <<"Population in", selected_year>>,
     highlight |-> TRUE,
     tooltip |-> [fields |-> <<LGANAME, selected_year>>,
                  aliases |-> <<"LGA:", "Population:">>]]

\* the overlay drawn without looking at the data
HasOverlayAlways(map_data) == TRUE

\* lines 81-116: the base map, and the overlay with its tooltip when there is data
HasOverlay(map_data) == ~IsEmpty(map_data)

BuildMap(map_data, selected_year) ==
    IF HasOverlay(map_data) THEN
        LET map_display_data ==
                astype_int(Project(map_data, <<GEOMETRY, LGANAME, selected_year>>),
                           selected_year)
        IN  [BaseMap EXCEPT !.choropleth = <<Choropleth(map_display_data, selected_year)>>]
    ELSE BaseMap

-----------------------------------------------------------------------------
(* The statistics, src/app.py 119-148 *)

\* Series.sum(), as a fraction
RECURSIVE SumV2(_)
SumV2(cellSeq) == IF cellSeq = <<>> THEN 0 ELSE Head(cellSeq).v2 + SumV2(Tail(cellSeq))

SumCells(cellSeq) == [num |-> SumV2(cellSeq), den |-> 2]

\* a stable sort of rows by their value in col: a row goes behind every row
\* that does not have to come after it
ComesBefore(x, y, col, descending) ==
    IF descending THEN x.cells[col].v2 > y.cells[col].v2 ELSE x.cells[col].v2 < y.cells[col].v2

RECURSIVE InsertRow(_, _, _, _)
InsertRow(x, s, col, descending) ==
    IF s = <<>> THEN <<x>>
    ELSE IF ComesBefore(x, Head(s), col, descending) THEN <<x>> \o s
    ELSE <<Head(s)>> \o InsertRow(x, Tail(s), col, descending)

RECURSIVE SortRows(_, _, _)
SortRows(rows, col, descending) ==
    IF rows = <<>> THEN <<>>
    ELSE InsertRow(rows[Len(rows)], SortRows(SubSeq(rows, 1, Len(rows) - 1), col, descending),
                   col, descending)

FirstN(s, n) == SubSeq(s, 1, IF Len(s) < n THEN Len(s) ELSE n)

Reverse(s) == [i \in 1..Len(s) |-> s[Len(s) + 1 - i]]

\* df.nlargest(n, col, keep="last"): later rows first among equal values
nlargest_keep_last(df, n, col) ==
    [columns |-> df.columns, rows |-> FirstN(SortRows(Reverse(df.rows), col, TRUE), n)]

\* df.nlargest(n, col), keep="first": the n largest, descending, earlier rows
\* first among equal values
nlargest(df, n, col) == [columns |-> df.columns, rows |-> FirstN(SortRows(df.rows, col, TRUE), n)]

\* df.nsmallest(n, col), keep="first"
nsmallest(df, n, col) == [columns |-> df.columns, rows |-> FirstN(SortRows(df.rows, col, FALSE), n)]

\* Series.median() as a fraction: the middle value, or the mean of the two
\* middle values
median(cellSeq) ==
    LET n == Len(cellSeq)
        s == SortRows([i \in 1..n |-> [idx |-> i, cells |-> [c \in {0} |-> cellSeq[i]]]], 0, FALSE)
        at(i) == s[i].cells[0].v2
    IN  IF n % 2 = 1 THEN [num |-> at((n + 1) \div 2), den |-> 2]
        ELSE [num |-> at(n \div 2) + at(n \div 2 + 1), den |-> 4]

\* [["LGANAME", year]].rename(columns={year: "Population"}).style.format("{:,.0f}")
RankedTable(df, selected_year) ==
    [i \in 1..Len(df.rows) |->
        [idx |-> df.rows[i].idx,
         LGANAME |-> df.rows[i].cells[LGANAME],
         Population |-> Format0f([num |-> df.rows[i].cells[selected_year].v2, den |-> 2])]]

NoStatistics == [warning |-> <<>>, metrics |-> <<>>, tables |-> <<>>]

\* lines 124-131: the three headline metrics
Metrics(valid_data, gdf, selected_year) ==
    LET total_population == SumCells(Column(valid_data, selected_year))
        median_population == median(Column(valid_data, selected_year))
        lgas_with_data_count == Len0(valid_data)
    IN  << [label |-> "Total Population", value |-> FormatThousands(int(total_population))],
           [label |-> "Median LGA Population", value |-> FormatThousands(int(median_population))],
           [label |-> "LGAs with Data",
            value |-> Str(lgas_with_data_count) \o <<32, 47, 32>> \o Str(Len0(gdf))] >>

\* lines 135-146: the two ranked tables
Tables(valid_data, selected_year) ==
    << [title |-> "Top 5 LGAs by Population",
        body |-> RankedTable(nlargest(valid_data, TOP_N, selected_year), selected_year)],
       [title |-> "Bottom 5 LGAs by Population",
        body |-> RankedTable(nsmallest(valid_data, TOP_N, selected_year), selected_year)] >>

HasStatistics(valid_data) == ~IsEmpty(valid_data)

Statistics(valid_data, gdf, selected_year) ==
    IF HasStatistics(valid_data) THEN
        [NoStatistics EXCEPT !.metrics = Metrics(valid_data, gdf, selected_year),
                             !.tables = Tables(valid_data, selected_year)]
    ELSE
        [NoStatistics EXCEPT !.warning =
            << [text |-> "No population data available for the selected year", year |-> selected_year] >>]

-----------------------------------------------------------------------------
(* One render pass: the script from top to bottom, src/app.py 52-148 *)

BlankPage ==
    [stage |-> "none", first |-> FALSE, parsed |-> FALSE, loaded |-> Failure(None),
     error |-> None, merged_data |-> NoFrame, options |-> <<>>, selected_year |-> <<>>,
     map_data |-> NoFrame, map |-> <<>>, valid_data |-> NoFrame, stats |-> NoStatistics]

\* `if error_message:` -- None is false, every message of the loader is a
\* non-empty string
Truthy(msg) == msg # None

\* the error is shown and the script goes on
StopsNever(loaded) == FALSE

\* lines 57-59: st.error(error_message); st.stop()
StopsOnLoadError(loaded) == Truthy(loaded.error_message)

\* lines 64-66: `if not year_columns:` st.error(...); st.stop()
StopsWithoutYears(year_columns) == year_columns = <<>>

\* the selections the selectbox can return: its default, index len - 1, on
\* the first pass, and afterwards whichever option the user has picked
Picks(loaded, isFirst) ==
    IF StopsOnLoadError(loaded) THEN {0}
    ELSE LET n == Len(year_columns_of(loaded.population_df))
         IN  IF n = 0 THEN {0} ELSE IF isFirst THEN {n} ELSE 1..n

\* the joined table handed to the map as it is
MapDataUnfiltered(merged_data, selected_year) == merged_data

\* lines 78 and 121: the two filtered copies of the joined table
MapData(merged_data, selected_year) == dropna(merged_data, selected_year)
ValidData(merged_data, selected_year) == dropna(merged_data, selected_year)

\* line 61
MergedData(gdf, population_df) == merge_left(gdf, population_df, LGANAME)

Script(loaded, pick) ==
    IF StopsOnLoadError(loaded) THEN
        [BlankPage EXCEPT !.stage = "load_error", !.loaded = loaded,
                          !.error = loaded.error_message]
    ELSE
        LET gdf == loaded.gdf
            population_df == loaded.population_df
            merged_data == MergedData(gdf, population_df)
            year_columns == year_columns_of(population_df)
        IN  IF StopsWithoutYears(year_columns) THEN
                [BlankPage EXCEPT !.stage = "no_years", !.loaded = loaded,
                                  !.merged_data = merged_data,
                                  !.error = [None EXCEPT !.kind =
                                      "No numeric year columns were found in the CSV file."]]
            ELSE
                LET selected_year == year_columns[pick]
                    map_data == MapData(merged_data, selected_year)
                    valid_data == ValidData(merged_data, selected_year)
                IN  [BlankPage EXCEPT !.stage = "rendered", !.loaded = loaded,
                                      !.merged_data = merged_data,
                                      !.options = year_columns,
                                      !.selected_year = selected_year,
                                      !.map_data = map_data,
                                      !.map = <<BuildMap(map_data, selected_year)>>,
                                      !.valid_data = valid_data,
                                      !.stats = Statistics(valid_data, gdf, selected_year)]

\* a user interaction (or the first page load) runs the script once
RenderPass ==
    LET hit == CacheHit(cache, CacheKey)
        loaded == IF hit THEN CacheValue(cache, CacheKey) ELSE load_local_data(shp, csv)
    IN  \E pick \in Picks(loaded, ~started) :
            /\ cache' = IF hit THEN cache ELSE CacheStore(cache, CacheKey, loaded)
            /\ page' = [Script(loaded, pick) EXCEPT !.first = ~started, !.parsed = ~hit]
            /\ started' = TRUE
            /\ dirty' = (hit /\ dirty)
            /\ UNCHANGED <<shp, csv>>

-----------------------------------------------------------------------------
(* The environment: the data files are rewritten, the process is restarted *)

WriteShapefile(f) ==
    /\ f # shp
    /\ shp' = f
    /\ dirty' = (dirty \/ cache # EmptyCache)
    /\ UNCHANGED <<csv, cache, started, page>>

WriteCsv(f) ==
    /\ f # csv
    /\ csv' = f
    /\ dirty' = (dirty \/ cache # EmptyCache)
    /\ UNCHANGED <<shp, cache, started, page>>

\* the memo lives in the memory of the server process
Restart ==
    /\ started
    /\ cache' = EmptyCache
    /\ started' = FALSE
    /\ dirty' = FALSE
    /\ page' = BlankPage
    /\ UNCHANGED <<shp, csv>>

-----------------------------------------------------------------------------
(* The data the model runs on *)

GeoKeys == {"A", "B"}

Line(key, y2016, y2021, half) ==
    [c \in {LGANAME, NAME, Y2016, Y2021, HALF} |->
        IF c \in {LGANAME, NAME} THEN key ELSE IF c = Y2016 THEN y2016
        ELSE IF c = Y2021 THEN y2021 ELSE half]

CsvLines == { Line("A", Num(100), Num(100), NaN),
              Line("A", Halves(201), NaN, Num(7)),
              Line("B", Num(100), Num(1300), NaN),
              Line("B", NaN, Num(201), NaN) }

Headers == { <<LGANAME, Y2021>>,
             <<LGANAME, Y2016, Y2021>>,
             <<Y2021, LGANAME, Y2016>>,
             <<Y2021, HALF, LGANAME, Y2016>>,
             <<LGANAME, HALF>>,
             <<LGANAME>>,
             <<NAME, Y2021>> }

Shapefiles == {ShpFile(LGANAME, keys) : keys \in SeqUpTo(GeoKeys, MaxRegions)}
CsvFiles == {CsvFile(h, lines) : h \in Headers, lines \in SeqUpTo(CsvLines, MaxCsvRows)}

\* the files the environment may put in place while the dashboard runs
ShapefileVersions ==
    {MissingFile, UnreadableFile, ShpFile(NAME, <<"A">>), ShpFile(LGANAME, <<"A", "B">>)}
CsvVersions ==
    {MissingFile, UnreadableFile,
     CsvFile(<<NAME, Y2021>>, <<Line("A", Num(100), Num(100), NaN)>>),
     CsvFile(<<LGANAME>>, <<Line("A", Num(100), Num(100), NaN)>>),
     CsvFile(<<LGANAME, HALF>>, <<Line("A", Halves(201), NaN, Num(7))>>),
     CsvFile(<<LGANAME, Y2021, Y2016>>,
             <<Line("A", Num(100), Num(100), NaN), Line("B", NaN, Num(201), NaN)>>),
     CsvFile(<<LGANAME, Y2021>>, <<Line("B", Num(100), Num(1300), NaN)>>)}

-----------------------------------------------------------------------------
(* The dashboard process with its environment *)

Init ==
    /\ shp \in ShapefileVersions
    /\ csv \in CsvVersions
    /\ cache = EmptyCache
    /\ started = FALSE
    /\ dirty = FALSE
    /\ page = BlankPage

Next ==
    \/ RenderPass
    \/ \E f \in ShapefileVersions : WriteShapefile(f)
    \/ \E f \in CsvVersions : WriteCsv(f)
    \/ Restart

Spec == Init /\ [][Next]_vars

(* Render passes over generated data files that stay as they are *)

InitData ==
    /\ shp \in Shapefiles
    /\ csv \in CsvFiles
    /\ cache = EmptyCache
    /\ started = FALSE
    /\ dirty = FALSE
    /\ page = BlankPage

NextData == RenderPass

SpecData == InitData /\ [][NextData]_vars

-----------------------------------------------------------------------------
(* Properties *)

Rendered == page.stage = "rendered"
Passed == page.stage # "none"

\* a name made of decimal digits only, and at least one
AllDigits(s) == Len(s) > 0 /\ \A i \in 1..Len(s) : s[i] \in 48..57

\* the number a displayed text stands for, its thousands separators skipped
RECURSIVE NumberShown(_)
NumberShown(text) ==
    IF text = <<>> THEN 0
    ELSE IF text[Len(text)] = 44 THEN NumberShown(SubSeq(text, 1, Len(text) - 1))
    ELSE 10 * NumberShown(SubSeq(text, 1, Len(text) - 1)) + (text[Len(text)] - 48)

KeysOf(df) == {df.rows[i].cells[LGANAME] : i \in 1..Len(df.rows)}

\* the values of the selected year over the filtered rows
SelectedValues == Column(page.valid_data, page.selected_year)

\* C1 (as claimed): when the boundary dataset and the population table share an
\* LGANAME value, the joined dataset has exactly as many rows as the boundary
\* dataset, every boundary region appears, and the regions without a
\* population row carry null year values.
C1_JoinKeepsRowCount ==
    (/\ page.stage \in {"rendered", "no_years"}
     /\ KeysOf(page.loaded.gdf) \cap KeysOf(page.loaded.population_df) # {})
    => LET gdf == page.loaded.gdf
           pop == page.loaded.population_df
           joined == page.merged_data
       IN  /\ Len0(joined) = Len0(gdf)
           /\ \A i \in 1..Len0(gdf) : \E k \in 1..Len0(joined) :
                  /\ joined.rows[k].cells[LGANAME] = gdf.rows[i].cells[LGANAME]
                  /\ joined.rows[k].cells[GEOMETRY] = gdf.rows[i].cells[GEOMETRY]
           /\ \A k \in 1..Len0(joined) :
                  joined.rows[k].cells[LGANAME] \notin KeysOf(pop)
                  => \A c \in Range(pop.columns) \ {LGANAME} : joined.rows[k].cells[c].isna

\* What the join does keep: every boundary region appears, in order, once
\* per population row with its name and once when there is none.
C1_JoinRowCountIs ==
    page.stage \in {"rendered", "no_years"}
    => LET gdf == page.loaded.gdf
           pop == page.loaded.population_df
           n(i) == Cardinality({k \in 1..Len0(pop) :
                       pop.rows[k].cells[LGANAME] = gdf.rows[i].cells[LGANAME]})
           RECURSIVE Total(_)
           Total(i) == IF i = 0 THEN 0 ELSE Total(i - 1) + (IF n(i) = 0 THEN 1 ELSE n(i))
       IN  Len0(page.merged_data) = Total(Len0(gdf))

\* C2: the filtered dataset holds exactly the rows of the joined dataset whose
\* value for the selected year is not null, and the map and the statistics of
\* the pass are both computed from that filtered dataset.
C2_FilteredRows ==
    Rendered
    => LET y == page.selected_year
           joined == page.merged_data.rows
           kept == page.map_data.rows
           nonNull == {i \in 1..Len(joined) : ~joined[i].cells[y].isna}
       IN  /\ \A i \in 1..Len(joined) :
                  (\E k \in 1..Len(kept) : kept[k] = joined[i]) <=> i \in nonNull
           /\ \A k \in 1..Len(kept) : \E i \in nonNull : kept[k] = joined[i]
           /\ Len(kept) = Cardinality(nonNull)
           /\ page.valid_data = page.map_data
           /\ IF kept = <<>> THEN page.map[1].choropleth = <<>>
              ELSE LET shown == page.map[1].choropleth[1].geo_data.rows
                   IN  /\ Len(shown) = Len(kept)
                       /\ \A k \in 1..Len(kept) :
                              /\ shown[k].idx = kept[k].idx
                              /\ shown[k].cells[LGANAME] = kept[k].cells[LGANAME]
                              /\ shown[k].cells[GEOMETRY] = kept[k].cells[GEOMETRY]
                              /\ shown[k].cells[y].v2 % 2 = 0
                              /\ shown[k].cells[y].v2 <= kept[k].cells[y].v2
                              /\ kept[k].cells[y].v2 < shown[k].cells[y].v2 + 2
           /\ page.stats = Statistics(page.map_data, page.loaded.gdf, y)

\* C2 witness: a pass on a year the user picked, which some joined rows have
\* a value for and others do not
C2_Witness ==
    /\ Rendered
    /\ ~page.first
    /\ page.selected_year # page.options[Len(page.options)]
    /\ Len0(page.map_data) > 0
    /\ Len0(page.map_data) < Len0(page.merged_data)

\* C3 (as claimed): a render pass that follows a change of a source file
\* re-reads the files and works on their present contents, not on the result
\* memoized for the same two paths.
C3_PassUsesPresentFiles ==
    [][RenderPass => page'.loaded = load_local_data(shp, csv)]_vars

\* C4: while the source files stay as they are, every render pass gets the
\* load result of the first pass: the files are parsed by the first pass only,
\* the memo keeps that one entry, and it is what loading the files gives.
C4_LoadIdempotent ==
    (Passed /\ ~dirty)
    => /\ page.loaded = load_local_data(shp, csv)
       /\ cache = {[key |-> <<SHAPEFILE_PATH, CSV_PATH>>, value |-> page.loaded]}
       /\ page.parsed <=> page.first

\* C4 witness: a later pass, on a year other than the default, has rendered
\* from files that were not touched
C4_Witness ==
    /\ Rendered
    /\ ~dirty
    /\ ~page.first
    /\ page.selected_year # page.options[Len(page.options)]

\* the load step cannot succeed on these files
LoadFails(s, c) ==
    \/ s.kind \in {"missing", "unreadable"}
    \/ c.kind \in {"missing", "unreadable"}
    \/ LGANAME \notin Range(s.columns)
    \/ LGANAME \notin Range(c.columns)

\* C5: when the load step fails, the pass shows the error with its detail and
\* stops: no join, no year selector, no map, no statistics.
C5_LoadFailureHalts ==
    /\ (Passed /\ page.parsed /\ ~dirty /\ LoadFails(shp, csv))
       => page.loaded.error_message # None
    /\ (Passed /\ page.loaded.error_message # None)
       => /\ page.stage = "load_error"
          /\ page.error = page.loaded.error_message
          /\ page.error.path # "" \/ page.error.cause # "" \/ page.error.columns # <<>>
          /\ page.merged_data = NoFrame
          /\ page.options = <<>>
          /\ page.map = <<>>
          /\ page.stats = NoStatistics

\* C5 witness: the pass parsed a CSV file without the LGANAME column
C5_Witness ==
    /\ page.stage = "load_error"
    /\ page.parsed
    /\ page.error.kind = "CSV missing 'LGANAME' column"
    /\ page.error.columns # <<>>

\* C6 (as claimed): the year labels are exactly the column names of the
\* population table made of digits only, in ascending lexical order, whatever
\* the order of the columns.
C6_YearLabelsAreDigitColumns ==
    page.stage \in {"rendered", "no_years"}
    => LET cols == Range(page.loaded.population_df.columns)
           labels == page.options
       IN  /\ Range(labels) = {c \in cols : AllDigits(c)}
           /\ \A i \in 1..(Len(labels) - 1) : StrLess(labels[i], labels[i + 1])

\* C7 (as claimed, for a population table in which no LGANAME repeats): the
\* panel shows the sum, the median and filtered_count / total_boundary_count.
C7_MetricsExact ==
    (/\ Rendered
     /\ Len0(page.valid_data) > 0
     /\ Cardinality(KeysOf(page.loaded.population_df)) = Len0(page.loaded.population_df))
    => LET m == page.stats.metrics
           total == SumCells(SelectedValues)
           med == median(SelectedValues)
       IN  /\ NumberShown(m[1].value) * total.den = total.num
           /\ NumberShown(m[2].value) * med.den = med.num
           /\ m[3].value = Str(Len0(page.valid_data)) \o <<32, 47, 32>> \o Str(Len0(page.loaded.gdf))

\* C7 (amended): the panel shows the sum and the median, each cut to its
\* integer part, and filtered_count / total_boundary_count.
C7_MetricsTruncated ==
    (Rendered /\ Len0(page.valid_data) > 0)
    => LET m == page.stats.metrics
           total == SumCells(SelectedValues)
           med == median(SelectedValues)
           \* n is x without its fractional part, for x >= 0
           IntegerPart(n, x) == n * x.den <= x.num /\ x.num < (n + 1) * x.den
       IN  /\ Len(m) = 3
           /\ IntegerPart(NumberShown(m[1].value), total)
           /\ IntegerPart(NumberShown(m[2].value), med)
           /\ m[3].value = Str(Len0(page.valid_data)) \o <<32, 47, 32>> \o Str(Len0(page.loaded.gdf))

\* C7 witness: a median that is not a whole number, fewer rows with data than
\* boundary regions, and a total that needs a thousands separator
C7_Witness ==
    /\ Rendered
    /\ Len0(page.valid_data) > 0
    /\ median(SelectedValues).num % median(SelectedValues).den # 0
    /\ Len0(page.valid_data) < Len0(page.loaded.gdf)
    /\ SumCells(SelectedValues).num >= 2000

\* C8: with no row for the selected year the pass still completes: the base
\* map only, at -32.5, 148.5, zoom 6, without overlay or tooltip, and in the
\* panel only the warning, without metrics or ranked tables.
C8_EmptyYear ==
    (Rendered /\ Len0(page.valid_data) = 0)
    => /\ Len(page.map) = 1
       /\ page.map[1].location = <<"-32.5", "148.5">>
       /\ page.map[1].zoom_start = 6
       /\ page.map[1].choropleth = <<>>
       /\ Len(page.stats.warning) = 1
       /\ page.stats.warning[1].year = page.selected_year
       /\ page.stats.metrics = <<>>
       /\ page.stats.tables = <<>>

\* C8 witness: boundary regions were joined, and none has a value for the year
C8_Witness ==
    /\ Rendered
    /\ Len0(page.merged_data) > 0
    /\ Len0(page.valid_data) = 0

\* C9 (as claimed): a population table without a column named in digits only
\* gets the failure reported and the pass stopped, with no year selector, map
\* or statistics.
C9_NoDigitColumnHalts ==
    (/\ page.stage \in {"rendered", "no_years"}
     /\ \A c \in Range(page.loaded.population_df.columns) : ~AllDigits(c))
    => /\ page.stage = "no_years"
       /\ page.error # None
       /\ page.options = <<>>
       /\ page.map = <<>>
       /\ page.stats = NoStatistics

\* C10: the top table lists the min(5, filtered_count) rows with the highest
\* values of the selected year, descending, the bottom table the
\* min(5, filtered_count) rows with the lowest values, ascending; among rows
\* with equal values the one that comes first in the filtered dataset is
\* taken first and listed first.
C10_RankedTables ==
    (Rendered /\ Len0(page.valid_data) > 0)
    => LET rows == page.valid_data.rows
           y == page.selected_year
           n == Len(rows)
           k == IF n < 5 THEN n ELSE 5
           Pos(idx) == CHOOSE i \in 1..n : rows[i].idx = idx
           Val(idx) == rows[Pos(idx)].cells[y].v2
           Listed(t) == {t[j].idx : j \in 1..Len(t)}
           \* t lists k different rows of the filtered dataset, name and value
           WellFormed(t) ==
               /\ Len(t) = k
               /\ Cardinality(Listed(t)) = k
               /\ \A j \in 1..k :
                      /\ \E i \in 1..n : rows[i].idx = t[j].idx
                      /\ t[j].LGANAME = rows[Pos(t[j].idx)].cells[LGANAME]
                      /\ 2 * NumberShown(t[j].Population) - Val(t[j].idx) \in {-1, 0, 1}
           \* first in the filtered dataset, first in the table
           TiesInOrder(t) ==
               \A j \in 1..k : \A i \in 1..n :
                   (rows[i].cells[y].v2 = Val(t[j].idx) /\ i < Pos(t[j].idx))
                   => \E h \in 1..(j - 1) : t[h].idx = rows[i].idx
           top == page.stats.tables[1].body
           bottom == page.stats.tables[2].body
       IN  /\ Len(page.stats.tables) = 2
           /\ WellFormed(top)
           /\ \A j \in 1..(k - 1) : Val(top[j].idx) >= Val(top[j + 1].idx)
           /\ \A i \in 1..n : rows[i].idx \notin Listed(top)
                  => \A j \in 1..k : rows[i].cells[y].v2 <= Val(top[j].idx)
           /\ TiesInOrder(top)
           /\ WellFormed(bottom)
           /\ \A j \in 1..(k - 1) : Val(bottom[j].idx) <= Val(bottom[j + 1].idx)
           /\ \A i \in 1..n : rows[i].idx \notin Listed(bottom)
                  => \A j \in 1..k : rows[i].cells[y].v2 >= Val(bottom[j].idx)
           /\ TiesInOrder(bottom)

\* C10 witness: more than five rows with data, and a row left out of the top
\* table that has the value of a row listed in it
C10_Witness ==
    /\ Rendered
    /\ Len0(page.valid_data) > 5
    /\ LET rows == page.valid_data.rows
           y == page.selected_year
           top == page.stats.tables[1].body
       IN  \E i \in 1..Len(rows) :
               /\ \A j \in 1..Len(top) : top[j].idx # rows[i].idx
               /\ \E j \in 1..Len(top) : \E h \in 1..Len(rows) :
                      /\ rows[h].idx = top[j].idx
                      /\ rows[h].cells[y].v2 = rows[i].cells[y].v2

=============================================================================
